---- MODULE Spec2Model ----
(***************************************************************************)
(* Model of marker's markdown post-processor                               *)
(* (src/marker/postprocessors/markdown.py): merge_spans, merge_lines,      *)
(* get_full_text and the string helpers they call.                         *)
(*                                                                         *)
(* A Python str is a sequence of one-character strings.  A few atoms stand *)
(* for one character that is not ASCII ("u2014" is the em-dash) or for the *)
(* decimal rendering of a small integer (str(7) is the atom "7").          *)
(***************************************************************************)
EXTENDS Integers, Sequences, FiniteSets, TLC

VARIABLES pc, PAGINATE_OUTPUT, pages, merged_blocks, text_blocks, full_text,
          call, out, out2

vars == <<pc, PAGINATE_OUTPUT, pages, merged_blocks, text_blocks, full_text,
          call, out, out2>>

\* Python's None where a str (or nothing) is expected, and the value of a
\* variable a specification does not use; str(None) is "None".
None == "None"
\* Python's None where an int is expected (heading_level, pnum): TLC compares
\* integers with integers only.
NoneInt == -1

(***************************************************************************)
(* Characters and their Unicode classes.                                   *)
(***************************************************************************)
EmDash == "u2014"
NotSign == "u00AC"
IdeographicFullStop == "u3002"
ThaiMaiyamok == "u0E46"
CjkLetter == "u4E2D"
Backtick == "u0060"

\* Paired tables of cased letters: LowerLetters[i] upper-cases to UpperLetters[i].
LowerLetters == <<"a", "b", "c", "d", "e", "l", "m", "p", "r", "s", "t", "u", "x">>
UpperLetters == <<"A", "B", "C", "D", "E", "L", "M", "P", "R", "S", "T", "U", "X">>

Range(f) == {f[i] : i \in DOMAIN f}

Ll == Range(LowerLetters)
Lu == Range(UpperLetters)
Lo == {CjkLetter}
Lm == {ThaiMaiyamok}
Nd == {"0", "1", "2", "3", "4", "5", "6", "7", "8", "9"}

\* \s of the regular expressions, and the characters str.strip() removes.
IsSpace(c) == c \in {" ", "\n", "\t"}

IndexOf(c, tab) == CHOOSE i \in DOMAIN tab : tab[i] = c
ToUpper(c) == IF c \in Ll THEN UpperLetters[IndexOf(c, LowerLetters)] ELSE c
ToLower(c) == IF c \in Lu THEN LowerLetters[IndexOf(c, UpperLetters)] ELSE c

(***************************************************************************)
(* str methods.                                                            *)
(***************************************************************************)
RECURSIVE lstrip(_)
lstrip(s) == IF s # <<>> /\ IsSpace(Head(s)) THEN lstrip(Tail(s)) ELSE s

RECURSIVE rstrip(_)
rstrip(s) ==
    IF s # <<>> /\ IsSpace(s[Len(s)]) THEN rstrip(SubSeq(s, 1, Len(s) - 1)) ELSE s

strip(s) == lstrip(rstrip(s))

startswith(s, p) == Len(s) >= Len(p) /\ SubSeq(s, 1, Len(p)) = p

endswith(s, p) == Len(s) >= Len(p) /\ SubSeq(s, Len(s) - Len(p) + 1, Len(s)) = p

\* Mutant of title: the text is left as it is.
title_unchanged(s) == s

\* str.title(): a cased character is upper-cased after an uncased one and
\* lower-cased after a cased one.
RECURSIVE TitleFrom(_, _)
TitleFrom(s, prevCased) ==
    IF s = <<>> THEN <<>>
    ELSE LET c == Head(s)
             cased == c \in Ll \/ c \in Lu
             d == IF ~cased THEN c
                  ELSE IF prevCased THEN ToLower(c) ELSE ToUpper(c)
         IN <<d>> \o TitleFrom(Tail(s), cased)

title(s) == TitleFrom(s, FALSE)

\* "#" * n
RECURSIVE Repeat(_, _)
Repeat(c, n) == IF n <= 0 THEN <<>> ELSE <<c>> \o Repeat(c, n - 1)

(***************************************************************************)
(* escape_markdown: re.sub(r"[#]", r'\\\g<0>', text) puts a backslash in    *)
(* front of every '#'.                                                     *)
(***************************************************************************)
RECURSIVE escape_markdown(_)
escape_markdown(text) ==
    IF text = <<>> THEN <<>>
    ELSE IF Head(text) = "#"
         THEN <<"\\", "#">> \o escape_markdown(Tail(text))
         ELSE <<Head(text)>> \o escape_markdown(Tail(text))

(***************************************************************************)
(* surround_text                                                           *)
(***************************************************************************)
surround_text(s, char_to_insert) ==
    LET leading_whitespace == SubSeq(s, 1, Len(s) - Len(lstrip(s)))
        trailing_whitespace == SubSeq(s, Len(rstrip(s)) + 1, Len(s))
        stripped_string == strip(s)
        modified_string == char_to_insert \o stripped_string \o char_to_insert
    IN leading_whitespace \o modified_string \o trailing_whitespace

(***************************************************************************)
(* block_surround                                                          *)
(***************************************************************************)
block_surround(text, block_type, heading_level, block_id) ==
    CASE block_type = "Section-header" ->
           IF ~startswith(text, <<"#">>)
           THEN LET asterisks == IF heading_level # NoneInt
                                 THEN Repeat("#", heading_level)
                                 ELSE <<"#", "#">>
                IN <<"\n">> \o asterisks \o <<" ">> \o title(strip(text)) \o <<"\n">>
           ELSE text
      [] block_type = "Title" ->
           IF ~startswith(text, <<"#">>)
           THEN <<"#", " ">> \o title(strip(text)) \o <<"\n">>
           ELSE text
      [] block_type = "Table" -> <<"\n">> \o text \o <<"\n">>
      [] block_type = "List-item" -> escape_markdown(rstrip(text)) \o <<"\n">>
      [] block_type = "Code" ->
           <<"\n", Backtick, Backtick, Backtick, "\n">> \o text
               \o <<"\n", Backtick, Backtick, Backtick, "\n">>
      [] block_type = "Text" -> escape_markdown(text)
      [] block_type = "Formula" ->
           IF startswith(strip(text), <<"$", "$">>) /\ endswith(strip(text), <<"$", "$">>)
           THEN <<"\n">> \o strip(text) \o <<"\n">>
           ELSE text
      [] block_type = "Caption" -> <<"\n">> \o escape_markdown(text) \o <<"\n">>
      [] OTHER -> text

(***************************************************************************)
(* line_separator.  The character classes are the bracket expressions the  *)
(* patterns are built from: lowercase_letters and all_letters are spliced  *)
(* into [...] with their '|', so '|' is a member of both classes.          *)
(***************************************************************************)
lowercase_letters(c) == c \in Lo \/ c \in Ll \/ c \in Nd \/ c = "|"

hyphens(c) == c \in {"-", EmDash, NotSign}

all_letters(c) == c \in Ll \/ c \in Lu \/ c \in Lo \/ c \in Lm \/ c \in Nd \/ c = "|"

sentence_continuations(c) == c \in {",", ";", "(", EmDash, "\"", "'", "*"}

sentence_ends(c) == c \in {IdeographicFullStop, ThaiMaiyamok, ".", "?", "!"}

\* '$' after the first k characters of s: at the end of s, or before a
\* newline that ends s.
AtEnd(s, k) == k = Len(s) \/ (k = Len(s) - 1 /\ s[Len(s)] = "\n")

\* '\s?$' after the first k characters of s.
OptSpaceEnd(s, k) == AtEnd(s, k) \/ (k < Len(s) /\ IsSpace(s[k + 1]) /\ AtEnd(s, k + 1))

\* hyphen_pattern = .*[lowercase_letters][hyphens]\s?$  (DOTALL)
hyphen_pattern(s) ==
    \E i \in 1..(Len(s) - 1) :
        lowercase_letters(s[i]) /\ hyphens(s[i + 1]) /\ OptSpaceEnd(s, i + 1)

\* regex.match(^\s?[lowercase_letters], line2)
lowercase_start(s) ==
    \/ Len(s) >= 1 /\ lowercase_letters(s[1])
    \/ Len(s) >= 2 /\ IsSpace(s[1]) /\ lowercase_letters(s[2])

\* Mutant of split_hyphen: the hyphen is left in place.
split_hyphen_kept(s) == s

\* regex.split([hyphens]\s?$, line1)[0]: what precedes the leftmost match.
split_hyphen(s) ==
    LET at == {j \in 1..Len(s) : hyphens(s[j]) /\ OptSpaceEnd(s, j)}
    IN IF at = {} THEN s
       ELSE SubSeq(s, 1, (CHOOSE j \in at : \A k \in at : j <= k) - 1)

\* Mutant of line_end_pattern: no continuation mark after the letter.
line_end_pattern_no_mark(s) ==
    \E i \in 1..Len(s) : lowercase_letters(s[i]) /\ OptSpaceEnd(s, i)

\* line_end_pattern = .*[lowercase_letters][sentence_continuations]?\s?$
line_end_pattern(s) ==
    \E i \in 1..Len(s) :
        /\ lowercase_letters(s[i])
        /\ \/ OptSpaceEnd(s, i)
           \/ i < Len(s) /\ sentence_continuations(s[i + 1]) /\ OptSpaceEnd(s, i + 1)

\* line_start_pattern = ^\s?[all_letters]
line_start_pattern(s) ==
    \/ Len(s) >= 1 /\ all_letters(s[1])
    \/ Len(s) >= 2 /\ IsSpace(s[1]) /\ all_letters(s[2])

\* Mutant of sentence_end_pattern: no whitespace after the mark.
sentence_end_pattern_no_space(s) ==
    \E i \in 1..Len(s) : sentence_ends(s[i]) /\ AtEnd(s, i)

\* sentence_end_pattern = .*[sentence_ends]\s?$
sentence_end_pattern(s) ==
    \E i \in 1..Len(s) : sentence_ends(s[i]) /\ OptSpaceEnd(s, i)

text_blocks_types == {"Text", "List-item", "Footnote", "Caption", "Figure"}

line_separator(line1, line2, block_type, is_continuation) ==
    IF line1 # <<>> /\ hyphen_pattern(line1) /\ lowercase_start(line2)
    THEN rstrip(split_hyphen(line1)) \o lstrip(line2)
    ELSE IF block_type \in {"Title", "Section-header"}
    THEN rstrip(line1) \o <<" ">> \o lstrip(line2)
    ELSE IF block_type = "Formula"
    THEN line1 \o <<"\n">> \o line2
    ELSE IF line_end_pattern(line1) /\ line_start_pattern(line2)
            /\ block_type \in text_blocks_types
    THEN rstrip(line1) \o <<" ">> \o lstrip(line2)
    ELSE IF is_continuation
    THEN rstrip(line1) \o <<" ">> \o lstrip(line2)
    ELSE IF block_type \in text_blocks_types /\ sentence_end_pattern(line1)
    THEN line1 \o <<"\n", "\n">> \o line2
    ELSE IF block_type = "Table"
    THEN line1 \o <<"\n", "\n">> \o line2
    ELSE line1 \o <<"\n">> \o line2

(***************************************************************************)
(* merge_spans.  A Span is [text, font, bold, italic], a Line [spans, bbox, *)
(* id], a Block [lines, bbox, pnum, block_type, heading_level, id], a Page *)
(* [pnum, bbox, blocks].  A bbox is <<x0, y0, x1, y1>>.                     *)
(***************************************************************************)
MergedLine(text, fonts, bbox) == [text |-> text, fonts |-> fonts, bbox |-> bbox]

MergedBlock(lines, pnum, bbox, block_type, heading_level, id) ==
    [lines |-> lines, pnum |-> pnum, bbox |-> bbox, block_type |-> block_type,
     heading_level |-> heading_level, id |-> id]

\* font.lower()
lower(s) == [i \in 1..Len(s) |-> ToLower(s[i])]

\* The index of next_span when the scan after span k ends (0 for None): the
\* first later span whose stripped text is longer than 2, else the last span.
next_span(spans, k) ==
    LET later == (k + 1)..Len(spans)
        long == {j \in later : Len(strip(spans[j].text)) > 2}
    IN IF later = {} THEN 0
       ELSE IF long # {} THEN CHOOSE j \in long : \A m \in long : j <= m
       ELSE Len(spans)

\* The text span k (1-based; i = k - 1 in the code) adds to the line.
span_text(spans, k) ==
    LET span == spans[k]
        n == next_span(spans, k)
    IN IF Len(span.text) > 3 /\ 0 < k - 1 /\ k - 1 < Len(spans) - 1
       THEN IF span.italic /\ (n = 0 \/ ~spans[n].italic)
            THEN surround_text(span.text, <<"*">>)
            ELSE IF span.bold /\ (n = 0 \/ ~spans[n].bold)
            THEN surround_text(span.text, <<"*", "*">>)
            ELSE span.text
       ELSE span.text

RECURSIVE spans_text(_, _)
spans_text(spans, k) ==
    IF k > Len(spans) THEN <<>> ELSE span_text(spans, k) \o spans_text(spans, k + 1)

\* Mutant of positional_tag: block and line identifiers change places.
positional_tag_swapped(page_num, block_id, line_id) ==
    <<" ", "[", "[", ToString(page_num), "_", line_id, "_", block_id, "]", "]">>

\* Mutant of positional_tag: no tag is put after the text of a line.
positional_tag_absent(page_num, block_id, line_id) == <<>>

\* f" [[{page_num}_{block_id}_{line_id}]]"
positional_tag(page_num, block_id, line_id) ==
    <<" ", "[", "[", ToString(page_num), "_", block_id, "_", line_id, "]", "]">>

\* Mutant of has_spans: a line without spans is merged like any other.
has_spans_always(line) == TRUE

\* not (len(line.spans) == 0)
has_spans(line) == Len(line.spans) # 0

merged_line(page_num, block, line) ==
    MergedLine(spans_text(line.spans, 1) \o positional_tag(page_num, block.id, line.id),
               [i \in 1..Len(line.spans) |-> lower(line.spans[i].font)],
               line.bbox)

block_lines(page_num, block) ==
    LET kept == SelectSeq(block.lines, has_spans)
    IN [i \in 1..Len(kept) |-> merged_line(page_num, block, kept[i])]

page_blocks(page_num, page) ==
    LET with_lines == SelectSeq(page.blocks,
                                LAMBDA block : Len(block_lines(page_num, block)) > 0)
        merged == [i \in 1..Len(with_lines) |->
                     MergedBlock(block_lines(page_num, with_lines[i]), page.pnum,
                                 with_lines[i].bbox, with_lines[i].block_type,
                                 with_lines[i].heading_level, with_lines[i].id)]
    IN IF Len(merged) = 0
       THEN <<MergedBlock(<<>>, page.pnum, page.bbox, "Text", NoneInt, None)>>
       ELSE merged

\* pagenum is enumerate's 0-based index; page_num = pagenum + 1.
merge_spans(pgs) == [p \in 1..Len(pgs) |-> page_blocks((p - 1) + 1, pgs[p])]

(***************************************************************************)
(* merge_lines.  The loop state is a record of the function's locals.      *)
(***************************************************************************)
\* settings.DEFAULT_BLOCK_TYPE and settings.PAGE_SEPARATOR (configuration).
DEFAULT_BLOCK_TYPE == "Text"
PAGE_SEPARATOR == <<"PAGE_SEPARATOR">>
max_block_gap == 15

FullyMergedBlock(text, block_type, page_start, pnum, block_id) ==
    [text |-> text, block_type |-> block_type, page_start |-> page_start,
     pnum |-> pnum, block_id |-> block_id]

Abs(x) == IF x < 0 THEN -x ELSE x
Min(x, y) == IF x <= y THEN x ELSE y

\* Python truth of an Optional[str] and of an Optional[int].
truthy_str(v) == v # None /\ v # ""
truthy_int(v) == v # NoneInt /\ v # 0

merge_lines_init ==
    [text_blocks |-> <<>>, prev_type |-> None, prev_line |-> <<>>,
     block_text |-> <<>>, block_type |-> "", prev_heading_level |-> NoneInt,
     pnum |-> NoneInt, curr_block_id |-> None]

\* The FullyMergedBlock a flush appends, with the page number it is given.
flushed(st, pnum) ==
    FullyMergedBlock(
        block_surround(st.block_text, st.prev_type, st.prev_heading_level,
                       st.curr_block_id),
        IF truthy_str(st.prev_type) THEN st.prev_type ELSE DEFAULT_BLOCK_TYPE,
        FALSE, pnum, st.curr_block_id)

\* Mutant of paginate: the accumulated text is emptied without being flushed.
paginate_without_flush(st, page) ==
    [st EXCEPT !.text_blocks =
                   Append(@, FullyMergedBlock(<<>>, "Text", TRUE, page[1].pnum, None)),
               !.block_text = <<>>]

\* Lines 176-195: the flush and the page-boundary block of a new page.
paginate(st, page) ==
    LET st1 == IF st.block_text # <<>>
               THEN [st EXCEPT !.text_blocks = Append(@, flushed(st, st.pnum)),
                               !.block_text = <<>>]
               ELSE st
    IN [st1 EXCEPT !.text_blocks =
            Append(@, FullyMergedBlock(<<>>, "Text", TRUE, page[1].pnum, None))]

\* Mutant of block_differs: the heading levels are not compared.
block_differs_type_only(block, prev_type, prev_heading_level) ==
    block.block_type # prev_type /\ truthy_str(prev_type)

\* Line 200: the flush condition.
block_differs(block, prev_type, prev_heading_level) ==
    \/ block.block_type # prev_type /\ truthy_str(prev_type)
    \/ block.heading_level # prev_heading_level /\ truthy_int(prev_heading_level)

\* Lines 217-222: whether a line continues the previous line, if there is
\* one (prev is <<>> or the previous line in a one-element sequence).
is_continuation(prev, line) ==
    LET has_prev == prev # <<>>
        prev_line == prev[1]
        line_height == line.bbox[4] - line.bbox[2]
        prev_line_height == IF has_prev THEN prev_line.bbox[4] - prev_line.bbox[2] ELSE 0
        prev_line_x == IF has_prev THEN prev_line.bbox[1] ELSE 0
        vertical_dist == IF has_prev
                         THEN Min(Abs(line.bbox[2] - prev_line.bbox[4]),
                                  Abs(line.bbox[4] - prev_line.bbox[2]))
                         ELSE 0
    IN /\ line_height = prev_line_height
       /\ line.bbox[1] = prev_line_x
       /\ vertical_dist < max_block_gap

\* Lines 217-226: one line of a block.
join_line(st, line) ==
    [st EXCEPT !.prev_line = <<line>>,
               !.block_text = IF st.block_text # <<>>
                              THEN line_separator(st.block_text, line.text,
                                                  st.block_type,
                                                  is_continuation(st.prev_line, line))
                              ELSE line.text]

RECURSIVE join_lines(_, _, _)
join_lines(st, lines, i) ==
    IF i > Len(lines) THEN st ELSE join_lines(join_line(st, lines[i]), lines, i + 1)

\* Lines 198-226: one block of a page.
join_block(st, block) ==
    LET st1 == [st EXCEPT !.block_type = block.block_type,
                          !.curr_block_id = block.id]
        st2 == IF block_differs(block, st1.prev_type, st1.prev_heading_level)
               THEN [st1 EXCEPT !.text_blocks = Append(@, flushed(st1, block.pnum)),
                                !.block_text = <<>>]
               ELSE st1
        st3 == [st2 EXCEPT !.prev_type = block.block_type,
                           !.prev_heading_level = block.heading_level,
                           !.pnum = block.pnum]
    IN join_lines(st3, block.lines, 1)

RECURSIVE join_blocks(_, _, _)
join_blocks(st, page, i) ==
    IF i > Len(page) THEN st ELSE join_blocks(join_block(st, page[i]), page, i + 1)

\* Lines 174-226: one page.
join_page(st, page, paginate_output) ==
    join_blocks(IF paginate_output THEN paginate(st, page) ELSE st, page, 1)

RECURSIVE join_pages(_, _, _, _)
join_pages(st, blocks, idx, paginate_output) ==
    IF idx > Len(blocks) THEN st
    ELSE join_pages(join_page(st, blocks[idx], paginate_output), blocks, idx + 1,
                    paginate_output)

\* Lines 229-237: the final block.
final_block(st) ==
    FullyMergedBlock(
        block_surround(st.block_text, st.prev_type, st.prev_heading_level,
                       st.curr_block_id),
        IF st.block_type # "" THEN st.block_type ELSE DEFAULT_BLOCK_TYPE,
        FALSE, st.pnum, st.curr_block_id)

\* Mutant of keep_block: a page-boundary block is blank text like any other.
keep_block_with_text(block) == strip(block.text) # <<>>

\* Line 239: the filter on the blocks.
keep_block(block) == strip(block.text) # <<>> \/ block.page_start

merge_lines(blocks, paginate_output) ==
    LET st == join_pages(merge_lines_init, blocks, 1, paginate_output)
    IN SelectSeq(Append(st.text_blocks, final_block(st)), keep_block)

(***************************************************************************)
(* get_full_text                                                           *)
(***************************************************************************)
\* Mutant of block_separator: a single newline after every block.
block_separator_newline(prev_block, block) == <<"\n">> \o block.text

block_separator(prev_block, block) ==
    LET sep == IF prev_block.block_type = "Text" THEN <<"\n", "\n">> ELSE <<"\n">>
    IN sep \o block.text

\* What block i adds to full_text; prev_block is the block before it.
emitted(blocks, i) ==
    IF blocks[i].page_start
    THEN <<"\n", "\n", "{", ToString(blocks[i].pnum), "}">> \o PAGE_SEPARATOR
    ELSE IF i > 1
    THEN block_separator(blocks[i - 1], blocks[i])
    ELSE blocks[i].text

RECURSIVE full_text_from(_, _)
full_text_from(blocks, i) ==
    IF i > Len(blocks) THEN <<>> ELSE emitted(blocks, i) \o full_text_from(blocks, i + 1)

get_full_text(blocks) == full_text_from(blocks, 1)

(***************************************************************************)
(* Inputs of the specifications.                                           *)
(***************************************************************************)
\* The block-type tags the code matches by string equality.
BlockTypes == {"Text", "Title", "Section-header", "List-item", "Table", "Code",
               "Formula", "Caption", "Footnote", "Figure"}

\* Every string of at most n characters of the alphabet.
Strings(alphabet, n) == UNION {[1..k -> alphabet] : k \in 0..n}

MaxLine1 == 3
MaxLine2 == 2
MaxText == 3
MaxHeading == 2
EscapeChars == {"#", "\\", "a"}
SurroundChars == {"a", "A", " ", "#"}
Results == <<"r", "e", "s", "u", "l", "t", "s">>
Line1Chars == {"a", "A", "-", EmDash, " ", ",", "."}
Line2Chars == {"a", "A", " ", "."}

MaxPages == 2
MaxBlocks == 2

\* Spans, lines and bounding boxes of the input documents.
Span(text, bold, italic) ==
    [text |-> text, font |-> <<"A">>, bold |-> bold, italic |-> italic]

PlainSpans == <<Span(<<"a", "b">>, FALSE, FALSE)>>
HashSpans == <<Span(<<"#", "a">>, FALSE, FALSE)>>
EmphasisSpans == <<Span(<<"a">>, FALSE, FALSE),
                   Span(<<"a", "b", "c", "d", " ">>, TRUE, TRUE),
                   Span(<<"b">>, TRUE, FALSE)>>

PageBox == <<0, 0, 100, 100>>
BlockBox == <<0, 0, 50, 40>>
\* BoxB continues BoxA (same height, same left edge, no gap); BoxC is
\* farther below than max_block_gap.
BoxA == <<0, 0, 50, 1>>
BoxB == <<0, 1, 50, 2>>
BoxC == <<0, 30, 50, 31>>

LineInput(spans, bbox) == [spans |-> spans, bbox |-> bbox]

\* The lines of a block, before their identifiers are given.
LineLists ==
    {<<LineInput(<<>>, BoxA)>>,
     <<LineInput(HashSpans, BoxA)>>,
     <<LineInput(PlainSpans, BoxA), LineInput(PlainSpans, BoxB)>>,
     <<LineInput(PlainSpans, BoxA), LineInput(EmphasisSpans, BoxC)>>,
     <<LineInput(<<>>, BoxA), LineInput(PlainSpans, BoxB)>>}

\* Only a Section-header carries a heading level.
HeadingLevels(block_type) ==
    IF block_type = "Section-header" THEN {NoneInt} \cup 1..MaxHeading ELSE {NoneInt}

BlockInput(block_type, heading_level, lines) ==
    [block_type |-> block_type, heading_level |-> heading_level, lines |-> lines]

\* The blocks a page is made of: every block type (and heading level) with
\* one plain line, and a Text block with each of the line lists.
BlockInputs ==
    UNION {{BlockInput(t, h, <<LineInput(PlainSpans, BoxA)>>) : h \in HeadingLevels(t)} :
              t \in BlockTypes}
    \cup {BlockInput("Text", NoneInt, ls) : ls \in LineLists}

\* Page numbers count from 0, as the Textract parser numbers the pages.
FirstPnum == 0

\* Identifiers are decimal strings, unique in the document.
BlockId(p, b) == ToString(10 * p + b)

Line(input, l) == [spans |-> input.spans, bbox |-> input.bbox, id |-> ToString(l)]

Block(input, pnum, p, b) ==
    [lines |-> [l \in 1..Len(input.lines) |-> Line(input.lines[l], l)],
     bbox |-> BlockBox, pnum |-> pnum, block_type |-> input.block_type,
     heading_level |-> input.heading_level, id |-> BlockId(p, b)]

Page(pnum, p, inputs) ==
    [pnum |-> pnum, bbox |-> PageBox,
     blocks |-> [b \in 1..Len(inputs) |-> Block(inputs[b], pnum, p, b)]]

\* The blocks among inputs that are put on page p, in order.
BlocksAt(inputs, at, p) ==
    LET idx == SelectSeq([i \in 1..Len(inputs) |-> i], LAMBDA i : at[i] = p)
    IN [j \in 1..Len(idx) |-> inputs[idx[j]]]

\* n pages numbered upwards from FirstPnum, block i of inputs on page at[i].
Pages(n, inputs, at) ==
    [p \in 1..n |-> Page(FirstPnum + p - 1, p, BlocksAt(inputs, at, p))]

(***************************************************************************)
(* Spec: the conversion of a document, merge_spans, then merge_lines, then *)
(* get_full_text.                                                          *)
(***************************************************************************)
Init ==
    /\ pc = "merge_spans"
    /\ PAGINATE_OUTPUT \in BOOLEAN
    /\ \E n \in 0..MaxPages, k \in 0..MaxBlocks :
          \E inputs \in [1..k -> BlockInputs], at \in [1..k -> 1..n] :
              /\ \A i \in 1..(k - 1) : at[i] <= at[i + 1]
              /\ pages = Pages(n, inputs, at)
    /\ merged_blocks = <<>> /\ text_blocks = <<>> /\ full_text = <<>>
    /\ call = None /\ out = None /\ out2 = None

MergeSpans ==
    /\ pc = "merge_spans"
    /\ merged_blocks' = merge_spans(pages)
    /\ pc' = "merge_lines"
    /\ UNCHANGED <<PAGINATE_OUTPUT, pages, text_blocks, full_text, call, out, out2>>

MergeLines ==
    /\ pc = "merge_lines"
    /\ text_blocks' = merge_lines(merged_blocks, PAGINATE_OUTPUT)
    /\ pc' = "get_full_text"
    /\ UNCHANGED <<PAGINATE_OUTPUT, pages, merged_blocks, full_text, call, out, out2>>

GetFullText ==
    /\ pc = "get_full_text"
    /\ full_text' = get_full_text(text_blocks)
    /\ pc' = "done"
    /\ UNCHANGED <<PAGINATE_OUTPUT, pages, merged_blocks, text_blocks, call, out, out2>>

Next == MergeSpans \/ MergeLines \/ GetFullText

Spec == Init /\ [][Next]_vars

(***************************************************************************)
(* SpecLineSeparator: one call of line_separator on arbitrary arguments.   *)
(***************************************************************************)
InitLineSeparator ==
    /\ pc = "line_separator"
    /\ call \in [line1 : Strings(Line1Chars, MaxLine1),
                  line2 : Strings(Line2Chars, MaxLine2),
                  block_type : BlockTypes,
                  is_continuation : BOOLEAN]
    /\ out = None /\ out2 = None
    /\ PAGINATE_OUTPUT = FALSE /\ pages = <<>> /\ merged_blocks = <<>>
    /\ text_blocks = <<>> /\ full_text = <<>>

CallLineSeparator ==
    /\ pc = "line_separator"
    /\ out' = line_separator(call.line1, call.line2, call.block_type,
                             call.is_continuation)
    /\ pc' = "returned"
    /\ UNCHANGED <<PAGINATE_OUTPUT, pages, merged_blocks, text_blocks, full_text,
                   call, out2>>

SpecLineSeparator == InitLineSeparator /\ [][CallLineSeparator]_vars

(***************************************************************************)
(* SpecEscapeMarkdown: escape_markdown applied to a text, then to its own  *)
(* result.                                                                 *)
(***************************************************************************)
InitEscapeMarkdown ==
    /\ pc = "escape_markdown"
    /\ call \in [text : Strings(EscapeChars, MaxText)]
    /\ out = None /\ out2 = None
    /\ PAGINATE_OUTPUT = FALSE /\ pages = <<>> /\ merged_blocks = <<>>
    /\ text_blocks = <<>> /\ full_text = <<>>

CallEscapeMarkdown ==
    /\ pc = "escape_markdown"
    /\ out' = escape_markdown(call.text)
    /\ pc' = "escaped"
    /\ UNCHANGED <<PAGINATE_OUTPUT, pages, merged_blocks, text_blocks, full_text,
                   call, out2>>

CallEscapeMarkdownAgain ==
    /\ pc = "escaped"
    /\ out2' = escape_markdown(out)
    /\ pc' = "escaped_twice"
    /\ UNCHANGED <<PAGINATE_OUTPUT, pages, merged_blocks, text_blocks, full_text,
                   call, out>>

NextEscapeMarkdown == CallEscapeMarkdown \/ CallEscapeMarkdownAgain

SpecEscapeMarkdown == InitEscapeMarkdown /\ [][NextEscapeMarkdown]_vars

(***************************************************************************)
(* SpecBlockSurround: one call of block_surround on arbitrary arguments.   *)
(***************************************************************************)
InitBlockSurround ==
    /\ pc = "block_surround"
    /\ call \in [text : Strings(SurroundChars, MaxText) \cup {Results},
                  block_type : BlockTypes,
                  heading_level : {NoneInt} \cup 0..MaxHeading]
    /\ out = None /\ out2 = None
    /\ PAGINATE_OUTPUT = FALSE /\ pages = <<>> /\ merged_blocks = <<>>
    /\ text_blocks = <<>> /\ full_text = <<>>

CallBlockSurround ==
    /\ pc = "block_surround"
    /\ out' = block_surround(call.text, call.block_type, call.heading_level, None)
    /\ pc' = "surrounded"
    /\ UNCHANGED <<PAGINATE_OUTPUT, pages, merged_blocks, text_blocks, full_text,
                   call, out2>>

SpecBlockSurround == InitBlockSurround /\ [][CallBlockSurround]_vars

(***************************************************************************)
(* Vocabulary of the claims about line_separator.                          *)
(***************************************************************************)
LetterOrDigit(c) == c \in Ll \/ c \in Lu \/ c \in Lo \/ c \in Lm \/ c \in Nd

\* A letter that is not upper-case (Ll or Lo), or a digit.
LowerLetterOrDigit(c) == c \in Ll \/ c \in Lo \/ c \in Nd

Returned == pc = "returned"

\* s without its last character.
DropLast(s) == SubSeq(s, 1, Len(s) - 1)

\* s is t followed by at most one whitespace character.
UpToOneSpace(s, t) == s = t \/ (s # <<>> /\ IsSpace(s[Len(s)]) /\ DropLast(s) = t)

\* The previous text without trailing whitespace.
Body1 == rstrip(call.line1)

\* The previous text is a letter-or-digit, a hyphen-class character and at
\* most one whitespace character; ok says which letters count.
EndsHyphenated(ok(_)) ==
    /\ Len(Body1) >= 2
    /\ hyphens(Body1[Len(Body1)])
    /\ ok(Body1[Len(Body1) - 1])
    /\ UpToOneSpace(call.line1, Body1)

\* C2 as stated: whenever the previous text ends with a letter-or-digit and
\* a hyphen-class character (and optional whitespace) and the new line
\* begins with a letter-or-digit, the join is the previous text without
\* the hyphen followed directly by the new line.
C2_AsStated ==
    (Returned /\ EndsHyphenated(LetterOrDigit)
        /\ call.line2 # <<>> /\ LetterOrDigit(call.line2[1]))
    => out = DropLast(Body1) \o call.line2

\* C2 (amended): for every block type and either continuation flag, when the
\* previous text ends with a lower-case or caseless letter or a digit, then a
\* hyphen-class character, then at most one whitespace character, and the
\* new line begins with a lower-case or caseless letter or a digit, the join
\* is the previous text without the hyphen followed directly by the new line.
C2_Dehyphenation ==
    (Returned /\ EndsHyphenated(LowerLetterOrDigit)
        /\ call.line2 # <<>> /\ LowerLetterOrDigit(call.line2[1]))
    => out = DropLast(Body1) \o call.line2

C2_Witness ==
    /\ Returned
    /\ call.line1 = <<"a", "-", " ">> /\ call.line2 = <<"a", " ">>
    /\ call.block_type = "Code" /\ call.is_continuation
    /\ out = <<"a", "a", " ">>

\* The previous text is a sentence-terminating mark and at most one
\* whitespace character.
EndsSentence ==
    /\ Body1 # <<>>
    /\ sentence_ends(Body1[Len(Body1)])
    /\ UpToOneSpace(call.line1, Body1)

\* The next line starts a new sentence: with an upper-case letter.
StartsSentence == call.line2 # <<>> /\ call.line2[1] \in Lu

\* C3 as stated: for the text-like block types, a previous text ending with
\* a sentence-terminating mark is joined to a new sentence by a blank line,
\* whatever the continuation flag.
C3_AsStated ==
    (Returned /\ call.block_type \in text_blocks_types
        /\ EndsSentence /\ StartsSentence)
    => out = call.line1 \o <<"\n", "\n">> \o call.line2

\* C3 (amended): the same, when the geometric continuation flag is false.
C3_ParagraphBreak ==
    (Returned /\ call.block_type \in text_blocks_types
        /\ EndsSentence /\ StartsSentence /\ ~call.is_continuation)
    => out = call.line1 \o <<"\n", "\n">> \o call.line2

C3_Witness ==
    /\ Returned
    /\ call.line1 = <<"a", ".", " ">> /\ call.line2 = <<"A", "a">>
    /\ call.block_type = "Footnote" /\ ~call.is_continuation
    /\ out = <<"a", ".", " ", "\n", "\n", "A", "a">>

\* The previous text ends with a letter-or-digit and at most one
\* soft-continuation mark; ok says which letters count.
EndsSoft(ok(_)) ==
    LET s == call.line1
    IN \/ s # <<>> /\ ok(s[Len(s)])
       \/ Len(s) >= 2 /\ sentence_continuations(s[Len(s)]) /\ ok(s[Len(s) - 1])

\* C4 as stated: for the text-like block types, a previous text ending with
\* a letter or digit and at most one soft-continuation mark is joined to a
\* new line starting with a letter or digit by exactly one space.
C4_AsStated ==
    (Returned /\ call.block_type \in text_blocks_types
        /\ EndsSoft(LetterOrDigit)
        /\ call.line2 # <<>> /\ LetterOrDigit(call.line2[1]))
    => out = call.line1 \o <<" ">> \o call.line2

\* De-hyphenation takes the join first: letter, hyphen-class mark, and a
\* new line starting with a lower-case or caseless letter or a digit.
Dehyphenates ==
    /\ EndsHyphenated(LowerLetterOrDigit)
    /\ call.line2 # <<>> /\ LowerLetterOrDigit(call.line2[1])

\* C4 (amended): for the text-like block types and either continuation
\* flag, a previous text ending with a lower-case or caseless letter or a
\* digit and at most one soft-continuation mark is joined to a new line
\* starting with a letter or digit by exactly one space, unless the mark is
\* an em-dash and the new line starts with a lower-case or caseless letter
\* or a digit (the de-hyphenation case).
C4_SentenceContinuation ==
    (Returned /\ call.block_type \in text_blocks_types
        /\ EndsSoft(LowerLetterOrDigit) /\ ~Dehyphenates
        /\ call.line2 # <<>> /\ LetterOrDigit(call.line2[1]))
    => out = call.line1 \o <<" ">> \o call.line2

C4_Witness ==
    /\ Returned
    /\ call.line1 = <<"a", " ", "a">> /\ call.line2 = <<"A", ".">>
    /\ call.block_type = "Text" /\ ~call.is_continuation
    /\ out = <<"a", " ", "a", " ", "A", ".">>

(***************************************************************************)
(* Claims about escape_markdown and block_surround.                        *)
(***************************************************************************)
\* C5 as stated: escape_markdown is idempotent, escaping the result of
\* escape_markdown again changes nothing.
C5_AsStated == pc = "escaped_twice" => out2 = out

\* '#' repeated heading_level times, two '#' when heading_level is unset.
Hashes(heading_level) ==
    [i \in 1..(IF heading_level = NoneInt THEN 2 ELSE heading_level) |-> "#"]

\* C9: block_surround of a Section-header returns a text that starts with
\* '#' unchanged, and any other text as a newline, the '#'s of the heading
\* level, a space, the trimmed title-cased text and a newline; heading
\* level 2 and "results" give "\n## Results\n".
C9_SectionHeader ==
    (pc = "surrounded" /\ call.block_type = "Section-header")
    => /\ (call.text # <<>> /\ call.text[1] = "#") => out = call.text
       /\ ~(call.text # <<>> /\ call.text[1] = "#") =>
              out = <<"\n">> \o Hashes(call.heading_level) \o <<" ">>
                        \o title(strip(call.text)) \o <<"\n">>
       /\ (call.text = Results /\ call.heading_level = 2) =>
              out = <<"\n", "#", "#", " ", "R", "e", "s", "u", "l", "t", "s", "\n">>

C9_Witness ==
    /\ pc = "surrounded"
    /\ call = [text |-> Results, block_type |-> "Section-header", heading_level |-> 2]
    /\ out = <<"\n", "#", "#", " ", "R", "e", "s", "u", "l", "t", "s", "\n">>

(***************************************************************************)
(* Claims about the conversion of a document.                              *)
(***************************************************************************)
Merged == pc \in {"merge_lines", "get_full_text", "done"}
Joined == pc \in {"get_full_text", "done"}
Done == pc = "done"

\* The lines of a block that have spans, in order.
LinesWithSpans(block) == SelectSeq(block.lines, LAMBDA line : line.spans # <<>>)

\* The blocks of a page that have a line with spans, in order.
BlocksWithSpans(page) ==
    SelectSeq(page.blocks, LAMBDA block : LinesWithSpans(block) # <<>>)

\* The text of the marker of page number n, with its separator.
ExpectedMarker(n) == <<"\n", "\n", "{", ToString(n), "}">> \o PAGE_SEPARATOR

\* What follows each '{' of a text, in order (no input text holds a '{').
RECURSIVE MarkerNumbers(_, _)
MarkerNumbers(ft, i) ==
    IF i >= Len(ft) THEN <<>>
    ELSE IF ft[i] = "{" THEN <<ft[i + 1]>> \o MarkerNumbers(ft, i + 1)
    ELSE MarkerNumbers(ft, i + 1)

\* Every '{' of the text is inside a whole marker, separator included.
MarkersWhole(ft) ==
    \A i \in 1..Len(ft) :
        ft[i] = "{" =>
            /\ i >= 3 /\ i + 2 + Len(PAGE_SEPARATOR) <= Len(ft)
            /\ ft[i - 2] = "\n" /\ ft[i - 1] = "\n" /\ ft[i + 2] = "}"
            /\ SubSeq(ft, i + 3, i + 2 + Len(PAGE_SEPARATOR)) = PAGE_SEPARATOR

PageStarts == SelectSeq(text_blocks, LAMBDA block : block.page_start)

\* C1: with pagination enabled and N >= 1 pages, the output holds exactly N
\* page markers, one per page and in page order, each with the page's number
\* and followed by the page separator, and merge_lines returns the N
\* page-boundary blocks (none is filtered out), pages without text included.
C1_PageMarkers ==
    (PAGINATE_OUTPUT /\ Len(pages) >= 1) =>
        /\ Joined =>
              /\ Len(PageStarts) = Len(pages)
              /\ \A p \in 1..Len(pages) : PageStarts[p].pnum = pages[p].pnum
        /\ Done =>
              /\ MarkersWhole(full_text)
              /\ MarkerNumbers(full_text, 1)
                     = [p \in 1..Len(pages) |-> ToString(pages[p].pnum)]

C1_Witness ==
    /\ Done /\ PAGINATE_OUTPUT
    /\ Len(pages) = 2 /\ pages[1].pnum = 0
    /\ pages[1].blocks # <<>> /\ pages[2].blocks = <<>>
    /\ MarkerNumbers(full_text, 1) = <<"0", "1">>

NonPageIndexes == {i \in 1..Len(text_blocks) : ~text_blocks[i].page_start}

FirstNonPage == CHOOSE i \in NonPageIndexes : \A j \in NonPageIndexes : i <= j

\* The markers of the first n blocks, all of them page boundaries.
RECURSIVE MarkersText(_)
MarkersText(n) ==
    IF n = 0 THEN <<>>
    ELSE MarkersText(n - 1) \o ExpectedMarker(text_blocks[n].pnum)

\* C6 as stated: the text of the first non-page-boundary block directly
\* follows what was emitted before it (nothing, or page markers and their
\* separators), with pagination enabled or disabled.
C6_AsStated ==
    (Done /\ NonPageIndexes # {}) =>
        startswith(full_text,
                   MarkersText(FirstNonPage - 1) \o text_blocks[FirstNonPage].text)

\* C6 (amended): with pagination disabled the first block is emitted with
\* no leading separator; with pagination enabled the first
\* non-page-boundary block follows the page markers before it and a blank
\* line (two newlines), the separator after a page-boundary block.
C6_FirstBlock ==
    (Done /\ NonPageIndexes # {}) =>
        /\ PAGINATE_OUTPUT <=> FirstNonPage > 1
        /\ startswith(full_text,
                      MarkersText(FirstNonPage - 1)
                          \o (IF PAGINATE_OUTPUT THEN <<"\n", "\n">> ELSE <<>>)
                          \o text_blocks[FirstNonPage].text)

C6_Witness ==
    /\ Done /\ PAGINATE_OUTPUT /\ NonPageIndexes # {}
    /\ FirstNonPage = 3
    /\ text_blocks[3].block_type = "Code"

\* The block of page p with the identifier of a MergedBlock.
SourceBlock(p, id) ==
    CHOOSE block \in Range(pages[p].blocks) : block.id = id

\* Every MergedLine of the document ends with the tag made of page, the
\* identifier of its block and the identifier of its line.
TagsEnd(page(_, _)) ==
    \A p \in 1..Len(merged_blocks) :
        \A m \in 1..Len(merged_blocks[p]) :
            LET mb == merged_blocks[p][m]
            IN \A l \in 1..Len(mb.lines) :
                   endswith(mb.lines[l].text,
                            <<"[", "[", page(p, mb), "_", mb.id, "_",
                              LinesWithSpans(SourceBlock(p, mb.id))[l].id, "]", "]">>)

\* C7 as stated: the page component of the tag is the page number of the
\* page, the number the MergedBlock carries as pnum.
C7_AsStated == Merged => TagsEnd(LAMBDA p, mb : ToString(mb.pnum))

\* C7 (amended): every MergedLine ends with a tag [[page_blockId_lineId]]
\* of the identifiers of its block and line, and page is the 1-based
\* position of the page in the list given to merge_spans.
C7_PositionalTag == Merged => TagsEnd(LAMBDA p, mb : ToString(p))

C7_Witness ==
    /\ Merged /\ Len(pages) = 2 /\ pages[1].pnum = 0
    /\ Len(merged_blocks[2][1].lines) = 2
    /\ endswith(merged_blocks[2][1].lines[2].text,
                <<"[", "[", "2", "_", "21", "_", "2", "]", "]">>)

\* C8: merge_spans returns one non-empty list per page, in page order; a
\* page without a line that has spans gives one placeholder (Text, no
\* lines, the page's bounding box and number); any other page gives one
\* MergedBlock per block that has such lines, with exactly those lines.
C8_Placeholder ==
    Merged =>
        /\ Len(merged_blocks) = Len(pages)
        /\ \A p \in 1..Len(pages) :
              LET mbs == merged_blocks[p]
                  src == BlocksWithSpans(pages[p])
              IN /\ mbs # <<>>
                 /\ \A m \in 1..Len(mbs) : mbs[m].pnum = pages[p].pnum
                 /\ src = <<>> =>
                       mbs = <<[lines |-> <<>>, pnum |-> pages[p].pnum,
                                bbox |-> pages[p].bbox, block_type |-> "Text",
                                heading_level |-> NoneInt, id |-> None]>>
                 /\ src # <<>> =>
                       /\ Len(mbs) = Len(src)
                       /\ \A m \in 1..Len(mbs) :
                             /\ mbs[m].id = src[m].id
                             /\ mbs[m].block_type = src[m].block_type
                             /\ mbs[m].lines # <<>>
                             /\ Len(mbs[m].lines) = Len(LinesWithSpans(src[m]))
                             /\ \A l \in 1..Len(mbs[m].lines) :
                                   mbs[m].lines[l].bbox = LinesWithSpans(src[m])[l].bbox

C8_Witness ==
    /\ Merged /\ Len(pages) = 2
    /\ Len(pages[1].blocks) = 1 /\ Len(pages[1].blocks[1].lines) = 1
    /\ pages[1].blocks[1].lines[1].spans = <<>>
    /\ merged_blocks[1][1].lines = <<>> /\ merged_blocks[1][1].bbox = PageBox
    /\ Len(pages[2].blocks) = 1 /\ Len(pages[2].blocks[1].lines) = 2
    /\ pages[2].blocks[1].lines[1].spans = <<>>
    /\ Len(merged_blocks[2][1].lines) = 1

\* The block identifiers of the positional tags in a text.
TagBlockIds(text) ==
    {text[i + 4] : i \in {j \in 1..(Len(text) - 8) :
                              /\ text[j] = "[" /\ text[j + 1] = "["
                              /\ text[j + 3] = "_" /\ text[j + 5] = "_"
                              /\ text[j + 7] = "]" /\ text[j + 8] = "]"}}

\* The <<page, block>> positions of the blocks whose lines are in a text.
Contributors(text) ==
    {pb \in UNION {{<<p, b>> : b \in 1..Len(pages[p].blocks)} : p \in 1..Len(pages)} :
        pages[pb[1]].blocks[pb[2]].id \in TagBlockIds(text)}

Before(pb1, pb2) == pb1[1] < pb2[1] \/ (pb1[1] = pb2[1] /\ pb1[2] <= pb2[2])

LastOf(pbs) == CHOOSE pb \in pbs : \A other \in pbs : Before(other, pb)

BlockAt(pb) == pages[pb[1]].blocks[pb[2]]

C11_AsStated ==
    Joined => \A i \in NonPageIndexes : Contributors(text_blocks[i].text) # {}

\* C12 as stated: every non-page-boundary FullyMergedBlock that holds input
\* lines carries the block_id and the page number of the last MergedBlock
\* whose lines are in its text, never those of the block that follows it.
C12_AsStated ==
    Joined =>
        \A i \in NonPageIndexes :
            LET fmb == text_blocks[i]
                from == Contributors(fmb.text)
            IN from # {} =>
                 /\ fmb.block_id = BlockAt(LastOf(from)).id
                 /\ fmb.pnum = BlockAt(LastOf(from)).pnum

\* The positional tags of a text, <<page, block, line>>, in reading order.
TagsOf(text) ==
    LET at == SelectSeq([j \in 1..Len(text) |-> j],
                        LAMBDA j : /\ j + 8 <= Len(text)
                                   /\ text[j] = "[" /\ text[j + 1] = "["
                                   /\ text[j + 3] = "_" /\ text[j + 5] = "_"
                                   /\ text[j + 7] = "]" /\ text[j + 8] = "]")
    IN [k \in 1..Len(at) |-> <<text[at[k] + 2], text[at[k] + 4], text[at[k] + 6]>>]

\* The texts of a sequence of records, one after the other.
RECURSIVE Texts(_)
Texts(records) ==
    IF records = <<>> THEN <<>> ELSE records[1].text \o Texts(Tail(records))

\* The MergedLines of the document in document order: page, block, line.
RECURSIVE LinesOf(_)
LinesOf(mbs) ==
    IF mbs = <<>> THEN <<>> ELSE mbs[1].lines \o LinesOf(Tail(mbs))

RECURSIVE DocumentLines(_)
DocumentLines(mblocks) ==
    IF mblocks = <<>> THEN <<>>
    ELSE LinesOf(mblocks[1]) \o DocumentLines(Tail(mblocks))

\* A text without the changes block_surround makes to its characters: the
\* case of title() and the backslashes of escape_markdown.
Plain(text) ==
    LET kept == SelectSeq(text, LAMBDA c : c # "\\")
    IN [k \in 1..Len(kept) |-> ToLower(kept[k])]

Occurs(s, t) ==
    \E k \in 0..(Len(t) - Len(s)) : SubSeq(t, k + 1, k + Len(s)) = s

\* C13: merge_lines neither loses nor duplicates lines.  Reading the
\* returned blocks in order gives the positional tags of the MergedLines in
\* document order (page, block, line), each once, and the text of every
\* MergedLine (up to case and escaping) is in exactly one returned block,
\* with pagination enabled or disabled.
C13_LinesKept ==
    Joined =>
        /\ TagsOf(Texts(text_blocks)) = TagsOf(Texts(DocumentLines(merged_blocks)))
        /\ \A l \in 1..Len(DocumentLines(merged_blocks)) :
              Cardinality({i \in NonPageIndexes :
                              Occurs(Plain(DocumentLines(merged_blocks)[l].text),
                                     Plain(text_blocks[i].text))}) = 1

C13_Witness ==
    /\ Joined /\ PAGINATE_OUTPUT /\ Len(pages) = 2
    /\ Len(DocumentLines(merged_blocks)) = 3
    /\ Len(merged_blocks[1][1].lines) = 2
    /\ merged_blocks[2][1].block_type = "Text"
    /\ TagsOf(Texts(text_blocks))
           = <<(<<"1", "11", "1">>), (<<"1", "11", "2">>), (<<"2", "21", "1">>)>>
    /\ TagsOf(text_blocks[2].text) = <<(<<"1", "11", "1">>), (<<"1", "11", "2">>)>>

\* The locals of merge_lines when it reaches line l of block b of page p of
\* merged_blocks: the pages, the blocks and the lines before it are joined.
BeforeLine(p, b, l) ==
    LET before == join_pages(merge_lines_init, SubSeq(merged_blocks, 1, p - 1), 1,
                             PAGINATE_OUTPUT)
        page == merged_blocks[p]
        paged == IF PAGINATE_OUTPUT THEN paginate(before, page) ELSE before
        st == join_blocks(paged, SubSeq(page, 1, b - 1), 1)
    IN join_block(st, [page[b] EXCEPT !.lines = SubSeq(@, 1, l - 1)])

\* The lines merge_lines gives to line_separator: <<p, b, l>> with the
\* accumulated text not empty when the line is reached.
SeparatorCalls ==
    {c \in UNION {UNION {{<<p, b, l>> : l \in 1..Len(merged_blocks[p][b].lines)} :
                            b \in 1..Len(merged_blocks[p])} :
                     p \in 1..Len(merged_blocks)} :
        BeforeLine(c[1], c[2], c[3]).block_text # <<>>}

LineAt(c) == merged_blocks[c[1]][c[2]].lines[c[3]]

\* C14: in merge_lines after merge_spans, the previous text given to
\* line_separator always ends with "]]", so neither the de-hyphenation nor
\* the soft-continuation nor the paragraph-break pattern matches it; two
\* lines of a Text, List-item, Footnote, Caption or Figure block are joined
\* by one space when the continuation flag is true and by one newline
\* otherwise.
C14_TagBlocksRules ==
    Joined =>
        \A c \in SeparatorCalls :
            LET st == BeforeLine(c[1], c[2], c[3])
                line1 == st.block_text
                line2 == LineAt(c).text
                joined == join_line(st, LineAt(c)).block_text
            IN /\ endswith(line1, <<"]", "]">>)
               /\ ~hyphen_pattern(line1)
               /\ ~line_end_pattern(line1)
               /\ ~sentence_end_pattern(line1)
               /\ st.block_type \in text_blocks_types =>
                     joined = IF is_continuation(st.prev_line, LineAt(c))
                              THEN rstrip(line1) \o <<" ">> \o lstrip(line2)
                              ELSE line1 \o <<"\n">> \o line2

C14_Witness ==
    /\ Joined /\ ~PAGINATE_OUTPUT /\ Len(pages) = 1
    /\ SeparatorCalls = {<<1, 1, 2>>, <<1, 2, 1>>, <<1, 2, 2>>}
    /\ is_continuation(BeforeLine(1, 1, 2).prev_line, LineAt(<<1, 1, 2>>))
    /\ ~is_continuation(BeforeLine(1, 2, 2).prev_line, LineAt(<<1, 2, 2>>))
    /\ Len(text_blocks) = 1 /\ text_blocks[1].block_type = "Text"
    /\ Occurs(<<"1", "]", "]", " ", "a", "b">>, text_blocks[1].text)
    /\ Occurs(<<"1", "]", "]", "\n", "a", "*">>, text_blocks[1].text)

====
